---------------------------- MODULE Spec2Model ----------------------------
(***************************************************************************)
(* Model of translate_wg_conf.py: a WireGuard INI configuration is read,   *)
(* its two keys are validated, its address lists are split and classified  *)
(* and the hostname.if(5) directives are printed.                          *)
(*                                                                         *)
(* Text is a sequence of one-character strings, so that split, the base64  *)
(* decoder and the address parsers work on the characters themselves.      *)
(***************************************************************************)
EXTENDS Integers, Sequences, FiniteSets

VARIABLES
    argv,                 \* sys.argv, as the number of its elements
    pc,                   \* position of the module's top-level code
    ini_parser,           \* WGConfAccessor.ini_parser
    wg_private_key,
    wg_public_key,
    wg_endpoint_ip,
    wg_endpoint_port,
    wg_allowed_ips,
    wg_if_addrs,
    potential_addresses,  \* IPAddressFinder.potential_addresses
    ip_addresses,         \* IPAddressFinder.ip_addresses
    ipv4_addresses,       \* IPAddressFinder.ipv4_addresses
    ipv6_addresses,       \* IPAddressFinder.ipv6_addresses
    stdout,               \* lines written to standard output
    stderr,               \* what was reported on the error stream
    exit_status,          \* "running", 0 or 1
    key,                  \* argument of a direct validate_key call
    key_result            \* outcome of that call

vars == <<argv, pc, ini_parser, wg_private_key, wg_public_key, wg_endpoint_ip,
          wg_endpoint_port, wg_allowed_ips, wg_if_addrs, potential_addresses,
          ip_addresses, ipv4_addresses, ipv6_addresses, stdout, stderr,
          exit_status, key, key_result>>

-----------------------------------------------------------------------------
(* Bounds *)

MaxAddrs == 2        \* elements of an Address value
MaxAips == 2         \* elements of an AllowedIPs value
MaxList == 3         \* elements of a list classified directly
MaxGroups == 11      \* leading "AAAA" groups of a key validated directly
MaxTail == 4         \* characters following those groups

-----------------------------------------------------------------------------
(* Text helpers *)

Range(s) == {s[i] : i \in 1..Len(s)}

\* s repeated n times
Rep(s, n) == [i \in 1..(n * Len(s)) |-> s[((i - 1) % Len(s)) + 1]]

\* the positions of the separator in s
SepPositions(s, sep) == {i \in 1..Len(s) : s[i] = sep}

\* position of the k-th separator; 0 and len + 1 close the text
SepAt(P, k, len) ==
    IF k = 0 THEN 0
    ELSE IF k = Cardinality(P) + 1 THEN len + 1
    ELSE CHOOSE i \in P : Cardinality({j \in P : j < i}) = k - 1

\* the pieces of s between the separators at the positions P
Pieces(s, P) ==
    [k \in 1..(Cardinality(P) + 1) |->
        SubSeq(s, SepAt(P, k - 1, Len(s)) + 1, SepAt(P, k, Len(s)) - 1)]

\* str.split(sep) for a one-character separator: never an empty list
split(s, sep) == Pieces(s, SepPositions(s, sep))

RECURSIVE Join(_, _)
Join(parts, sep) ==
    IF Len(parts) = 0 THEN <<>>
    ELSE IF Len(parts) = 1 THEN parts[1]
    ELSE parts[1] \o sep \o Join(Tail(parts), sep)

\* all sequences over S of length 0..n
SeqsUpTo(S, n) == UNION {[1..k -> S] : k \in 0..n}

Digits == {"0", "1", "2", "3", "4", "5", "6", "7", "8", "9"}

DigitVal(c) ==
    CASE c = "0" -> 0 [] c = "1" -> 1 [] c = "2" -> 2 [] c = "3" -> 3
      [] c = "4" -> 4 [] c = "5" -> 5 [] c = "6" -> 6 [] c = "7" -> 7
      [] c = "8" -> 8 [] c = "9" -> 9

RECURSIVE DecVal(_)
DecVal(s) == IF Len(s) = 0 THEN 0
             ELSE 10 * DecVal(SubSeq(s, 1, Len(s) - 1)) + DigitVal(s[Len(s)])

\* the leading zeros of a digit string do not change its value
RECURSIVE StripZeros(_)
StripZeros(s) == IF Len(s) > 1 /\ s[1] = "0" THEN StripZeros(Tail(s)) ELSE s

-----------------------------------------------------------------------------
(* base64.b64decode(s, validate=True), binascii.a2b_base64 in strict mode. *)
(* Only the number of decoded bytes is kept.                               *)

B64Alphabet ==
    {"A", "B", "C", "D", "E", "F", "G", "H", "I", "J", "K", "L", "M",
     "N", "O", "P", "Q", "R", "S", "T", "U", "V", "W", "X", "Y", "Z",
     "a", "b", "c", "d", "e", "f", "g", "h", "i", "j", "k", "l", "m",
     "n", "o", "p", "q", "r", "s", "t", "u", "v", "w", "x", "y", "z"}
    \cup Digits \cup {"+", "/"}

\* the decoder raised binascii.Error (no byte count)
B64Error == -1

\* the decoder's state: quad is the position in the current 4-character
\* group, pads the padding characters seen in a row, started whether padding
\* began, n the bytes decoded so far, status whether the loop still runs
A2bStart == [quad |-> 0, pads |-> 0, started |-> FALSE, n |-> 0, status |-> "loop"]

\* one iteration of the decoder's loop on character c; last tells whether c
\* is the final character
a2b_step(st, c, last) ==
    IF st.status # "loop" THEN st
    ELSE IF c = "="
         THEN IF st.quad >= 2 /\ st.quad + st.pads + 1 >= 4
              THEN [st EXCEPT !.status = IF last THEN "done" ELSE "error"]
              ELSE [st EXCEPT !.started = TRUE,
                              !.pads = IF st.quad >= 2 THEN @ + 1 ELSE @]
         ELSE IF c \notin B64Alphabet THEN [st EXCEPT !.status = "error"]
         ELSE IF st.started THEN [st EXCEPT !.status = "error"]
         ELSE [st EXCEPT !.pads = 0,
                         !.quad = (@ + 1) % 4,
                         !.n = IF st.quad = 0 THEN @ ELSE @ + 1]

\* the loop over the characters lo..hi, run half by half; it is left as soon
\* as the decoder returned or raised
RECURSIVE a2b_loop(_, _, _, _)
a2b_loop(s, lo, hi, st) ==
    IF lo > hi THEN st
    ELSE IF lo = hi THEN a2b_step(st, s[lo], lo = Len(s))
    ELSE LET mid == (lo + hi) \div 2
             half == a2b_loop(s, lo, mid, st)
         IN  IF half.status # "loop" THEN half
             ELSE a2b_loop(s, mid + 1, hi, half)

\* the number of bytes decoded, or B64Error when binascii.Error is raised
b64decode(s) ==
    IF Len(s) > 0 /\ s[1] = "=" THEN B64Error
    ELSE LET st == a2b_loop(s, 1, Len(s), A2bStart)
         IN  IF st.status = "error" THEN B64Error
             ELSE IF st.status = "loop" /\ st.quad # 0 THEN B64Error
             ELSE st.n

KeyLen == 32

\* with the length test inverted to "shorter than", longer keys pass
validate_key_short_only(k) ==
    LET d == b64decode(k)
    IN  IF d = B64Error THEN "binascii.Error"
        ELSE IF d < KeyLen THEN "ValueError"
        ELSE "ok"

\* WGKeyValidator.validate_key: "ok", or the exception it raises
validate_key(k) ==
    LET d == b64decode(k)
    IN  IF d = B64Error THEN "binascii.Error"
        ELSE IF d # KeyLen THEN "ValueError"
        ELSE "ok"

-----------------------------------------------------------------------------
(* The ipaddress module: which literals parse, as which family, and which  *)
(* exception the others raise.                                             *)

HexDigits == Digits \cup {"a", "b", "c", "d", "e", "f",
                          "A", "B", "C", "D", "E", "F"}

IsDigitStr(s) == Len(s) > 0 /\ Range(s) \subseteq Digits

\* IPv4Address._parse_octet
ValidOctet(o) ==
    /\ IsDigitStr(o)
    /\ Len(o) <= 3
    /\ ~(o # <<"0">> /\ o[1] = "0")
    /\ DecVal(o) <= 255

\* the four octets of IPv4Address._ip_int_from_string
ValidOctets(octets) ==
    /\ Len(octets) = 4
    /\ \A i \in 1..4 : ValidOctet(octets[i])

\* IPv4Address._ip_int_from_string succeeds
ValidV4Addr(a) == Len(a) > 0 /\ ValidOctets(split(a, "."))

\* a digit string without leading zeros is a number within 0..max
InPrefixRange(z, max) == Len(z) <= 3 /\ DecVal(z) <= max

\* _prefix_from_prefix_string: a digit string within 0..max
ValidPrefixStr(m, max) == IsDigitStr(m) /\ InPrefixRange(StripZeros(m), max)

OnesThenZeros == {0, 128, 192, 224, 240, 248, 252, 254, 255}

\* the octets are a run of one bits followed by zero bits only
IsNetmask(v) ==
    \E k \in 1..4 : /\ \A j \in 1..(k - 1) : v[j] = 255
                    /\ v[k] \in OnesThenZeros
                    /\ \A j \in (k + 1)..4 : v[j] = 0

\* _prefix_from_ip_int accepts the octets as a netmask or as a hostmask
IsMask(octets) ==
    \/ IsNetmask([i \in 1..4 |-> DecVal(octets[i])])
    \/ IsNetmask([i \in 1..4 |-> 255 - DecVal(octets[i])])

\* IPv4Network._prefix_from_ip_string: a dotted netmask or hostmask
ValidV4MaskIp(m) == ValidV4Addr(m) /\ IsMask(split(m, "."))

\* IPv4Interface on the text split at "/"
IPv4InterfaceOf(p) ==
    IF Len(p) > 2 THEN "AddressValueError"
    ELSE IF ~ValidV4Addr(p[1]) THEN "AddressValueError"
    ELSE IF Len(p) = 1 THEN "IPv4Interface"
    ELSE IF ValidPrefixStr(p[2], 32) \/ ValidV4MaskIp(p[2])
         THEN "IPv4Interface"
    ELSE "NetmaskValueError"

\* ipaddress.IPv4Interface(s): the class of the result or of the exception
IPv4Interface(s) == IPv4InterfaceOf(split(s, "/"))

\* IPv6Address._parse_hextet
ValidHextet(h) == Len(h) > 0 /\ Len(h) <= 4 /\ Range(h) \subseteq HexDigits

\* the last part is an IPv4-style suffix
HasV4Suffix(raw) == "." \in Range(raw[Len(raw)])

\* the parts after an IPv4-style suffix was converted to two hextets
V6Parts(raw) ==
    IF HasV4Suffix(raw)
    THEN SubSeq(raw, 1, Len(raw) - 1) \o <<<<"0">>, <<"0">>>>
    ELSE raw

\* the hextets around "::": hi parts before it and lo parts after it
ValidHiLo(parts, hi, lo) ==
    /\ parts[1] = <<>> => hi = 0
    /\ parts[Len(parts)] = <<>> => lo = 0
    /\ 8 - (hi + lo) >= 1
    /\ \A i \in 1..hi : ValidHextet(parts[i])
    /\ \A i \in (Len(parts) - lo + 1)..Len(parts) : ValidHextet(parts[i])

\* the parts with "::" at part k
ValidCompressed(parts, k) ==
    ValidHiLo(parts,
              IF parts[1] = <<>> THEN k - 2 ELSE k - 1,
              IF parts[Len(parts)] = <<>> THEN Len(parts) - k - 1
                                            ELSE Len(parts) - k)

\* skips are the empty parts that are neither first nor last
ValidSkips(parts, skips) ==
    /\ Cardinality(skips) <= 1
    /\ IF skips # {}
       THEN ValidCompressed(parts, CHOOSE i \in skips : TRUE)
       ELSE /\ Len(parts) = 8
            /\ \A i \in 1..Len(parts) : ValidHextet(parts[i])

ValidV6Parts(parts) ==
    /\ Len(parts) <= 9
    /\ ValidSkips(parts, {i \in 2..(Len(parts) - 1) : parts[i] = <<>>})

\* the address split at ":"
ValidV6Raw(raw) ==
    /\ Len(raw) >= 3
    /\ HasV4Suffix(raw) => ValidV4Addr(raw[Len(raw)])
    /\ ValidV6Parts(V6Parts(raw))

\* IPv6Address._ip_int_from_string succeeds
ValidV6Addr(a) == Len(a) > 0 /\ ValidV6Raw(split(a, ":"))

\* IPv6Address._split_scope_id accepts the address split at "%"
ValidScopeId(p) == Len(p) = 1 \/ (Len(p) = 2 /\ p[2] # <<>>)

\* the address with its zone split off
ValidV6Scoped(p) ==
    IF ~ValidScopeId(p) THEN FALSE ELSE ValidV6Addr(p[1])

\* IPv6Interface on the text split at "/"
IPv6InterfaceOf(p) ==
    IF Len(p) > 2 THEN "AddressValueError"
    ELSE IF ~ValidV6Scoped(split(p[1], "%")) THEN "AddressValueError"
    ELSE IF Len(p) = 1 THEN "IPv6Interface"
    ELSE IF ValidPrefixStr(p[2], 128) THEN "IPv6Interface"
    ELSE "NetmaskValueError"

\* ipaddress.IPv6Interface(s): the class of the result or of the exception
IPv6Interface(s) == IPv6InterfaceOf(split(s, "/"))

\* the outcome of ip_interface given those of the two constructors, whose
\* exceptions it swallows; what escapes is a plain ValueError
InterfaceOf(r4, r6) ==
    IF r4 = "IPv4Interface" THEN r4
    ELSE IF r6 = "IPv6Interface" THEN r6
    ELSE "ValueError"

\* ipaddress.ip_interface(s)
ip_interface(s) == InterfaceOf(IPv4Interface(s), IPv6Interface(s))

-----------------------------------------------------------------------------
(* IPAddressFinder *)

\* what a try block of the _is_* methods returns: the interface (its class),
\* False when AddressValueError is caught; any other exception escapes
CatchAddressValueError(r) == IF r = "AddressValueError" THEN "False" ELSE r

\* _is_ip
_is_ip(ip) == CatchAddressValueError(ip_interface(ip))

\* _is_ipv4
_is_ipv4(ip) == CatchAddressValueError(IPv4Interface(ip))

\* _is_ipv6
_is_ipv6(ip) == CatchAddressValueError(IPv6Interface(ip))

Raises(r) == r \in {"ValueError", "NetmaskValueError"}

\* an interface object is always true, only False is false
Truthy(r) == r # "False"

\* the finder's three lists and the exception that ended the call, if any
Finder(all, v4, v6, exc) ==
    [ip_addresses |-> all, ipv4_addresses |-> v4, ipv6_addresses |-> v6,
     raised |-> exc]

\* the canonical address/prefixlen text of the literals used here: a literal
\* without prefix gets the family's full prefix length
WithPrefixlen(a) ==
    IF "/" \in Range(a) THEN a
    ELSE IF ":" \in Range(a) THEN a \o <<"/", "1", "2", "8">>
    ELSE a \o <<"/", "3", "2">>

\* the loop body given the results of the three tests, with the two family
\* lists exchanged
find_body_swapped(f, address, isip, is4, is6) ==
    IF Raises(isip) THEN [f EXCEPT !.raised = isip]
    ELSE IF is4 = "IPv4Interface"
    THEN [f EXCEPT !.ip_addresses = Append(@, address),
                   !.ipv6_addresses = Append(@, address)]
    ELSE [f EXCEPT !.ip_addresses = Append(@, address),
                   !.ipv4_addresses = Append(@, address)]

\* the loop body given the results of the three tests, appending
\* str(interface) instead of the literal
find_body_canonical(f, address, isip, is4, is6) ==
    IF Raises(isip) THEN [f EXCEPT !.raised = isip]
    ELSE IF is4 = "IPv4Interface"
    THEN [f EXCEPT !.ip_addresses = Append(@, WithPrefixlen(address)),
                   !.ipv4_addresses = Append(@, WithPrefixlen(address))]
    ELSE [f EXCEPT !.ip_addresses = Append(@, WithPrefixlen(address)),
                   !.ipv6_addresses = Append(@, WithPrefixlen(address))]

\* the loop body of find_ip_addresses given the results of the three tests;
\* a test is looked at only where the code calls it
find_body(f, address, isip, is4, is6) ==
    IF Raises(isip) THEN [f EXCEPT !.raised = isip]
    ELSE IF ~Truthy(isip) THEN f
    ELSE IF Raises(is4)
    THEN [f EXCEPT !.ip_addresses = Append(@, address), !.raised = is4]
    ELSE IF Truthy(is4)
    THEN [f EXCEPT !.ip_addresses = Append(@, address),
                   !.ipv4_addresses = Append(@, address)]
    ELSE IF Raises(is6)
    THEN [f EXCEPT !.ip_addresses = Append(@, address), !.raised = is6]
    ELSE IF Truthy(is6)
    THEN [f EXCEPT !.ip_addresses = Append(@, address),
                   !.ipv6_addresses = Append(@, address)]
    ELSE [f EXCEPT !.ip_addresses = Append(@, address)]

\* the body of the loop of find_ip_addresses for one element
find_step(f, address) ==
    find_body(f, address, _is_ip(address), _is_ipv4(address), _is_ipv6(address))

\* the loop of find_ip_addresses from element i on, left when an exception
\* escapes
RECURSIVE find_loop(_, _, _)
find_loop(pa, i, f) ==
    IF i > Len(pa) \/ f.raised # "none" THEN f
    ELSE find_loop(pa, i + 1, find_step(f, pa[i]))

\* IPAddressFinder.find_ip_addresses on the finder's current lists
find_ip_addresses(pa, all, v4, v6) ==
    find_loop(pa, 1, Finder(all, v4, v6, "none"))

-----------------------------------------------------------------------------
(* The configuration document *)

Sections == {"Interface", "Peer"}

\* an option is <<>> when absent and <<value>> when present
Maybe(S) == {<<>>} \cup {<<v>> : v \in S}

\* ConfigParser.get(section, option): the exception it raises, or "none"
get_error(doc, section, option) ==
    IF section \notin doc.sections THEN "NoSectionError"
    ELSE IF doc[option] = <<>> THEN "NoOptionError"
    ELSE "none"

\* ConfigParser.get(section, option) when it returns
get(doc, section, option) == doc[option][1]

NoDoc == [sections |-> {}, PrivateKey |-> <<>>, Address |-> <<>>,
          PublicKey |-> <<>>, AllowedIPs |-> <<>>, Endpoint |-> <<>>]

-----------------------------------------------------------------------------
(* Inputs *)

KeyA == Rep(<<"A">>, 43) \o <<"=">>
KeyB == Rep(<<"B">>, 42) \o <<"A", "=">>
ShortKey == <<"A", "A", "A", "A", "A", "A", "=", "=">>
BadKey == <<"n", "o", "t", "-", "a", "-", "k", "e", "y">>

PrivateKeys == {KeyA, ShortKey, BadKey}
PublicKeys == {KeyB, ShortKey, BadKey}

Endpoints == {<<"2", "0", "3", ".", "0", ".", "1", "1", "3", ".", "5", ":", "5", "1", "8", "2", "0">>, <<"2", "0", "3", ".", "0", ".", "1", "1", "3", ".", "5">>, <<"[", "f", "e", "8", "0", ":", ":", "1", "]", ":", "5", "1", "8", "2", "0">>}

AddrLiterals == {<<"1", "0", ".", "0", ".", "0", ".", "2", "/", "2", "4">>, <<"f", "d", "0", "0", ":", ":", "2", "/", "6", "4">>, <<"1", "0", ".", "0", ".", "0", ".", "1">>, <<":", ":", "1">>, <<"x">>}
AipLiterals == {<<"0", ".", "0", ".", "0", ".", "0", "/", "0">>, <<":", ":", "/", "0">>}

\* list elements are written with a comma or with a comma and a space
Seps == {<<",">>, <<",", " ">>}

ListValues(lits, max) ==
    {Join(l, sep) : l \in SeqsUpTo(lits, max), sep \in Seps}

IniDocs ==
    {d \in [sections : SUBSET Sections,
            PrivateKey : Maybe(PrivateKeys),
            Address : Maybe(ListValues(AddrLiterals, MaxAddrs)),
            PublicKey : Maybe(PublicKeys),
            AllowedIPs : Maybe(ListValues(AipLiterals, MaxAips)),
            Endpoint : Maybe(Endpoints)] :
        /\ "Interface" \notin d.sections =>
               d.PrivateKey = <<>> /\ d.Address = <<>>
        /\ "Peer" \notin d.sections =>
               d.PublicKey = <<>> /\ d.AllowedIPs = <<>> /\ d.Endpoint = <<>>}

-----------------------------------------------------------------------------
(* Output lines *)

WgkeyLine(k) == <<"w", "g", "k", "e", "y", " ">> \o k
WgpeerLine(k) == <<"w", "g", "p", "e", "e", "r", " ">> \o k \o <<" ", "\\">>
WgendpointLine(ip, port) == <<"\t", "w", "g", "e", "n", "d", "p", "o", "i", "n", "t", " ">> \o ip \o <<" ">> \o port \o <<" ", "\\">>
InetLine(a) == <<"i", "n", "e", "t", " ">> \o a
Inet6Line(a) == <<"i", "n", "e", "t", "6", " ">> \o a

\* the wgaip loop: an element equal to the last element ends the directive
WgaipLines(aips) ==
    [i \in 1..Len(aips) |->
        IF aips[i] = aips[Len(aips)]
        THEN <<"\t", "w", "g", "a", "i", "p", " ">> \o aips[i]
        ELSE <<"\t", "w", "g", "a", "i", "p", " ">> \o aips[i] \o <<" ", "\\">>]

-----------------------------------------------------------------------------
(* The program *)

Init ==
    /\ argv \in {1, 2}
    /\ pc = "argv"
    /\ ini_parser = NoDoc
    /\ wg_private_key = <<>>
    /\ wg_public_key = <<>>
    /\ wg_endpoint_ip = <<>>
    /\ wg_endpoint_port = <<>>
    /\ wg_allowed_ips = <<>>
    /\ wg_if_addrs = <<>>
    /\ potential_addresses = <<>>
    /\ ip_addresses = <<>>
    /\ ipv4_addresses = <<>>
    /\ ipv6_addresses = <<>>
    /\ stdout = <<>>
    /\ stderr = "none"
    /\ exit_status = "running"
    /\ key = <<>>
    /\ key_result = "unused"

conf == <<wg_private_key, wg_public_key, wg_endpoint_ip, wg_endpoint_port,
          wg_allowed_ips, wg_if_addrs>>
finder == <<potential_addresses, ip_addresses, ipv4_addresses, ipv6_addresses>>
direct == <<key, key_result>>

\* an uncaught exception (or sys.exit(1)) ends the run
Fail(e) ==
    /\ pc' = "exit"
    /\ exit_status' = "1"
    /\ stderr' = e

Goto(l) ==
    /\ pc' = l
    /\ UNCHANGED <<exit_status, stderr>>

\* INI_FILE = sys.argv[1], or the usage message and sys.exit(1)
ReadArgv ==
    /\ pc = "argv"
    /\ IF argv < 2 THEN Fail("usage") ELSE Goto("open")
    /\ UNCHANGED <<argv, ini_parser, conf, finder, stdout, direct>>

\* WGConfAccessor(INI_FILE): the file may be unreadable or no INI document
OpenConf ==
    /\ pc = "open"
    /\ \/ /\ \E e \in {"OSError", "configparser.Error"} : Fail(e)
          /\ UNCHANGED ini_parser
       \/ /\ \E d \in IniDocs : ini_parser' = d
          /\ Goto("private_key")
    /\ UNCHANGED <<argv, conf, finder, stdout, direct>>

\* the private key printed as soon as it is validated
GetPrivateKeyAndPrint ==
    /\ pc = "private_key"
    /\ LET e == get_error(ini_parser, "Interface", "PrivateKey")
       IN  IF e # "none"
           THEN Fail(e) /\ UNCHANGED <<wg_private_key, stdout>>
           ELSE LET k == get(ini_parser, "Interface", "PrivateKey")
                    v == validate_key(k)
                IN  IF v # "ok"
                    THEN Fail(v) /\ UNCHANGED <<wg_private_key, stdout>>
                    ELSE /\ wg_private_key' = k
                         /\ stdout' = Append(stdout, WgkeyLine(k))
                         /\ Goto("public_key")
    /\ UNCHANGED <<argv, ini_parser, wg_public_key, wg_endpoint_ip,
                   wg_endpoint_port, wg_allowed_ips, wg_if_addrs, finder,
                   direct>>

\* wg_private_key = get_interface_private_key(); validate_key(...)
GetPrivateKey ==
    /\ pc = "private_key"
    /\ LET e == get_error(ini_parser, "Interface", "PrivateKey")
       IN  IF e # "none"
           THEN Fail(e) /\ UNCHANGED wg_private_key
           ELSE LET k == get(ini_parser, "Interface", "PrivateKey")
                    v == validate_key(k)
                IN  IF v # "ok"
                    THEN Fail(v) /\ UNCHANGED wg_private_key
                    ELSE wg_private_key' = k /\ Goto("public_key")
    /\ UNCHANGED <<argv, ini_parser, wg_public_key, wg_endpoint_ip,
                   wg_endpoint_port, wg_allowed_ips, wg_if_addrs, finder,
                   stdout, direct>>

\* wg_public_key = get_peer_public_key(); validate_key(...)
GetPublicKey ==
    /\ pc = "public_key"
    /\ LET e == get_error(ini_parser, "Peer", "PublicKey")
       IN  IF e # "none"
           THEN Fail(e) /\ UNCHANGED wg_public_key
           ELSE LET k == get(ini_parser, "Peer", "PublicKey")
                    v == validate_key(k)
                IN  IF v # "ok"
                    THEN Fail(v) /\ UNCHANGED wg_public_key
                    ELSE wg_public_key' = k /\ Goto("endpoint")
    /\ UNCHANGED <<argv, ini_parser, wg_private_key, wg_endpoint_ip,
                   wg_endpoint_port, wg_allowed_ips, wg_if_addrs, finder,
                   stdout, direct>>

\* wg_endpoint_ip, wg_endpoint_port = get_peer_endpoint().split(":")
SplitEndpoint ==
    /\ pc = "endpoint"
    /\ LET e == get_error(ini_parser, "Peer", "Endpoint")
       IN  IF e # "none"
           THEN Fail(e) /\ UNCHANGED <<wg_endpoint_ip, wg_endpoint_port>>
           ELSE LET p == split(get(ini_parser, "Peer", "Endpoint"), ":")
                IN  IF Len(p) # 2
                    THEN Fail("ValueError")
                         /\ UNCHANGED <<wg_endpoint_ip, wg_endpoint_port>>
                    ELSE /\ wg_endpoint_ip' = p[1]
                         /\ wg_endpoint_port' = p[2]
                         /\ Goto("allowed_ips")
    /\ UNCHANGED <<argv, ini_parser, wg_private_key, wg_public_key,
                   wg_allowed_ips, wg_if_addrs, finder, stdout, direct>>

\* the allowed IPs reduced to the literals an IPAddressFinder recognizes
SplitAllowedIPsClassified ==
    /\ pc = "allowed_ips"
    /\ LET e == get_error(ini_parser, "Peer", "AllowedIPs")
       IN  IF e # "none"
           THEN Fail(e) /\ UNCHANGED wg_allowed_ips
           ELSE LET l == split(get(ini_parser, "Peer", "AllowedIPs"), ",")
                IN  /\ wg_allowed_ips' =
                           SelectSeq(l, LAMBDA a : ip_interface(a) # "ValueError")
                    /\ Goto("address")
    /\ UNCHANGED <<argv, ini_parser, wg_private_key, wg_public_key,
                   wg_endpoint_ip, wg_endpoint_port, wg_if_addrs, finder,
                   stdout, direct>>

\* wg_allowed_ips = get_peer_allowed_ips().split(",")
SplitAllowedIPs ==
    /\ pc = "allowed_ips"
    /\ LET e == get_error(ini_parser, "Peer", "AllowedIPs")
       IN  IF e # "none"
           THEN Fail(e) /\ UNCHANGED wg_allowed_ips
           ELSE /\ wg_allowed_ips' =
                       split(get(ini_parser, "Peer", "AllowedIPs"), ",")
                /\ Goto("address")
    /\ UNCHANGED <<argv, ini_parser, wg_private_key, wg_public_key,
                   wg_endpoint_ip, wg_endpoint_port, wg_if_addrs, finder,
                   stdout, direct>>

\* wg_if_addrs = get_interface_address().split(",");
\* wg_if_ip_finder = IPAddressFinder(wg_if_addrs)
SplitAddress ==
    /\ pc = "address"
    /\ LET e == get_error(ini_parser, "Interface", "Address")
       IN  IF e # "none"
           THEN Fail(e) /\ UNCHANGED <<wg_if_addrs, finder>>
           ELSE LET l == split(get(ini_parser, "Interface", "Address"), ",")
                IN  /\ wg_if_addrs' = l
                    /\ potential_addresses' = l
                    /\ ip_addresses' = <<>>
                    /\ ipv4_addresses' = <<>>
                    /\ ipv6_addresses' = <<>>
                    /\ Goto("find")
    /\ UNCHANGED <<argv, ini_parser, wg_private_key, wg_public_key,
                   wg_endpoint_ip, wg_endpoint_port, wg_allowed_ips, stdout,
                   direct>>

\* wg_if_ip_finder.find_ip_addresses()
FindIPAddresses ==
    /\ pc = "find"
    /\ LET r == find_ip_addresses(potential_addresses, ip_addresses,
                                  ipv4_addresses, ipv6_addresses)
       IN  /\ ip_addresses' = r.ip_addresses
           /\ ipv4_addresses' = r.ipv4_addresses
           /\ ipv6_addresses' = r.ipv6_addresses
           /\ IF r.raised # "none" THEN Fail(r.raised) ELSE Goto("wgkey")
    /\ UNCHANGED <<argv, ini_parser, conf, potential_addresses, stdout, direct>>

Emit(lines, l) ==
    /\ stdout' = stdout \o lines
    /\ Goto(l)
    /\ UNCHANGED <<argv, ini_parser, conf, finder, direct>>

\* print(f"wgkey {wg_private_key}")
PrintKey == pc = "wgkey" /\ Emit(<<WgkeyLine(wg_private_key)>>, "wgpeer")

\* print(f"wgpeer {wg_public_key} \\")
PrintPeer == pc = "wgpeer" /\ Emit(<<WgpeerLine(wg_public_key)>>, "wgendpoint")

\* print(f"\twgendpoint {wg_endpoint_ip} {wg_endpoint_port} \\")
PrintEndpoint ==
    /\ pc = "wgendpoint"
    /\ Emit(<<WgendpointLine(wg_endpoint_ip, wg_endpoint_port)>>, "wgaip")

\* for allowed_ip in wg_allowed_ips: ...
PrintAllowedIPs == pc = "wgaip" /\ Emit(WgaipLines(wg_allowed_ips), "inet")

\* the inet loop running over every recognized address
PrintInetAll ==
    /\ pc = "inet"
    /\ Emit([i \in 1..Len(ip_addresses) |-> InetLine(ip_addresses[i])], "inet6")

\* for ip4_addr in wg_if_ip_finder.ipv4_addresses: print(f"inet {ip4_addr}")
PrintInet ==
    /\ pc = "inet"
    /\ Emit([i \in 1..Len(ipv4_addresses) |-> InetLine(ipv4_addresses[i])],
             "inet6")

\* for ip6_addr in wg_if_ip_finder.ipv6_addresses: print(f"inet6 {ip6_addr}")
\* and the end of the script
PrintInet6 ==
    /\ pc = "inet6"
    /\ stdout' = stdout \o
           [i \in 1..Len(ipv6_addresses) |-> Inet6Line(ipv6_addresses[i])]
    /\ pc' = "exit"
    /\ exit_status' = "0"
    /\ UNCHANGED <<argv, ini_parser, conf, finder, stderr, direct>>

Next ==
    \/ ReadArgv
    \/ OpenConf
    \/ GetPrivateKey
    \/ GetPublicKey
    \/ SplitEndpoint
    \/ SplitAllowedIPs
    \/ SplitAddress
    \/ FindIPAddresses
    \/ PrintKey
    \/ PrintPeer
    \/ PrintEndpoint
    \/ PrintAllowedIPs
    \/ PrintInet
    \/ PrintInet6

Spec == Init /\ [][Next]_vars

-----------------------------------------------------------------------------
(* validate_key called directly on a key *)

KeyChars == {"A", "=", "*"}

KeyInputs ==
    {Rep(<<"A", "A", "A", "A">>, g) \o t : g \in 0..MaxGroups, t \in SeqsUpTo(KeyChars, MaxTail)}

InitKey ==
    /\ key \in KeyInputs
    /\ key_result = "pending"
    /\ pc = "validate_key"
    /\ argv = 2
    /\ ini_parser = NoDoc
    /\ wg_private_key = <<>>
    /\ wg_public_key = <<>>
    /\ wg_endpoint_ip = <<>>
    /\ wg_endpoint_port = <<>>
    /\ wg_allowed_ips = <<>>
    /\ wg_if_addrs = <<>>
    /\ potential_addresses = <<>>
    /\ ip_addresses = <<>>
    /\ ipv4_addresses = <<>>
    /\ ipv6_addresses = <<>>
    /\ stdout = <<>>
    /\ stderr = "none"
    /\ exit_status = "running"

\* key_validator.validate_key(key)
ValidateKey ==
    /\ pc = "validate_key"
    /\ key_result' = validate_key(key)
    /\ pc' = "validated"
    /\ UNCHANGED <<argv, ini_parser, conf, finder, stdout, stderr,
                   exit_status, key>>

NextKey == ValidateKey

SpecKey == InitKey /\ [][NextKey]_vars

-----------------------------------------------------------------------------
(* find_ip_addresses called once on a fresh IPAddressFinder *)

ClassifyLiterals ==
    {<<"1", "0", ".", "0", ".", "0", ".", "2", "/", "2", "4">>, <<"1", "0", ".", "0", ".", "0", ".", "1">>, <<"f", "d", "0", "0", ":", ":", "2", "/", "6", "4">>, <<":", ":", "1">>,
     <<"3", "0", "0", ".", "1", ".", "1", ".", "1">>, <<"1", "0", ".", "0", ".", "0", ".", "1", "/", "3", "3">>, <<"x">>, <<>>}

\* IPAddressFinder(potential_addresses)
InitClassify ==
    /\ potential_addresses \in SeqsUpTo(ClassifyLiterals, MaxList)
    /\ ip_addresses = <<>>
    /\ ipv4_addresses = <<>>
    /\ ipv6_addresses = <<>>
    /\ pc = "classify"
    /\ argv = 2
    /\ ini_parser = NoDoc
    /\ wg_private_key = <<>>
    /\ wg_public_key = <<>>
    /\ wg_endpoint_ip = <<>>
    /\ wg_endpoint_port = <<>>
    /\ wg_allowed_ips = <<>>
    /\ wg_if_addrs = <<>>
    /\ stdout = <<>>
    /\ stderr = "none"
    /\ exit_status = "running"
    /\ key = <<>>
    /\ key_result = "unused"

\* finder.find_ip_addresses(); stderr records the exception that escaped
Classify ==
    /\ pc = "classify"
    /\ LET r == find_ip_addresses(potential_addresses, ip_addresses,
                                  ipv4_addresses, ipv6_addresses)
       IN  /\ ip_addresses' = r.ip_addresses
           /\ ipv4_addresses' = r.ipv4_addresses
           /\ ipv6_addresses' = r.ipv6_addresses
           /\ stderr' = r.raised
    /\ pc' = "classified"
    /\ UNCHANGED <<argv, ini_parser, conf, potential_addresses, stdout,
                   exit_status, direct>>

NextClassify == Classify

SpecClassify == InitClassify /\ [][NextClassify]_vars

-----------------------------------------------------------------------------
(* Properties *)

HasPrefix(s, p) == Len(s) >= Len(p) /\ SubSeq(s, 1, Len(p)) = p
EndsWith(s, p) == Len(s) >= Len(p) /\ SubSeq(s, Len(s) - Len(p) + 1, Len(s)) = p

Continued(line) == EndsWith(line, <<" ", "\\">>)
IsWgaip(line) == HasPrefix(line, <<"\t", "w", "g", "a", "i", "p">>)

Recognized(a) == ip_interface(a) # "ValueError"
IsV4(a) == IPv4Interface(a) = "IPv4Interface"
IsV6(a) == IPv6Interface(a) = "IPv6Interface"

Succeeded == pc = "exit" /\ exit_status = "0"
Failed == pc = "exit" /\ exit_status = "1"

\* the lists the document gives, as the comma split of its values
DocAllowedIPs == split(ini_parser.AllowedIPs[1], ",")
DocAddresses == split(ini_parser.Address[1], ",")

PrintStages == {"wgpeer", "wgendpoint", "wgaip", "inet", "inet6", "exit"}

\* C1: a run that ends in a fatal error has written nothing to standard
\* output, and output only exists once every fatal check has passed.
NoOutputOnFatalError ==
    /\ exit_status = "1" => stdout = <<>>
    /\ stdout # <<>> => pc \in PrintStages /\ exit_status # "1"

\* a run that passed every other check and failed in the last one, the
\* classification of the Address list
FatalAtClassification ==
    /\ Failed
    /\ stderr = "ValueError"
    /\ potential_addresses # <<>>
    /\ stdout = <<>>

RECURSIVE TrailingPads(_)
TrailingPads(k) ==
    IF Len(k) > 0 /\ k[Len(k)] = "="
    THEN 1 + TrailingPads(SubSeq(k, 1, Len(k) - 1))
    ELSE 0

\* base64 as RFC 4648 writes it: whole groups of four characters, the last
\* one padded with at most two "="
WellFormedB64(k) ==
    LET p == TrailingPads(k)
    IN  /\ Len(k) % 4 = 0
        /\ p <= 2
        /\ \A i \in 1..(Len(k) - p) : k[i] \in B64Alphabet

DecodedLength(k) == 3 * (Len(k) \div 4) - TrailingPads(k)

\* whole unpadded groups with "=" characters appended
ExcessPadding(k) ==
    LET p == TrailingPads(k)
        n == Len(k) - p
    IN  /\ p >= 1
        /\ n >= 1
        /\ n % 4 = 0
        /\ \A i \in 1..n : k[i] \in B64Alphabet

ScenarioDoc ==
    [sections |-> Sections,
     PrivateKey |-> <<KeyA>>,
     Address |-> <<<<"1", "0", ".", "0", ".", "0", ".", "2", "/", "2", "4", ",", " ", "f", "d", "0", "0", ":", ":", "2", "/", "6", "4">>>>,
     PublicKey |-> <<KeyB>>,
     AllowedIPs |-> <<<<"0", ".", "0", ".", "0", ".", "0", "/", "0", ",", " ", ":", ":", "/", "0">>>>,
     Endpoint |-> <<<<"2", "0", "3", ".", "0", ".", "1", "1", "3", ".", "5", ":", "5", "1", "8", "2", "0">>>>]

ScenarioOutput ==
    <<<<"w", "g", "k", "e", "y", " ">> \o KeyA,
      <<"w", "g", "p", "e", "e", "r", " ">> \o KeyB \o <<" ", "\\">>,
      <<"\t", "w", "g", "e", "n", "d", "p", "o", "i", "n", "t", " ", "2", "0", "3", ".", "0", ".", "1", "1", "3", ".", "5", " ", "5", "1", "8", "2", "0", " ", "\\">>,
      <<"\t", "w", "g", "a", "i", "p", " ", "0", ".", "0", ".", "0", ".", "0", "/", "0", " ", "\\">>,
      <<"\t", "w", "g", "a", "i", "p", " ", ":", ":", "/", "0">>,
      <<"i", "n", "e", "t", " ", "1", "0", ".", "0", ".", "0", ".", "2", "/", "2", "4">>,
      <<"i", "n", "e", "t", "6", " ", "f", "d", "0", "0", ":", ":", "2", "/", "6", "4">>>>

\* C3: the run on the end-to-end document, whose lists are written with a
\* comma and a space, succeeds and prints exactly the seven lines.
EndToEndScenario ==
    (pc = "exit" /\ ini_parser = ScenarioDoc) =>
        exit_status = "0" /\ stdout = ScenarioOutput

\* C4: a successful run has printed one wgkey, one wgpeer and one wgendpoint
\* line, then a wgaip line per allowed IP in input order, then an inet line
\* per IPv4 address in input order, then an inet6 line per IPv6 address.
OutputOrder ==
    Succeeded =>
        LET n == Len(DocAllowedIPs)
            v4 == SelectSeq(DocAddresses, IsV4)
            v6 == SelectSeq(DocAddresses, IsV6)
        IN  /\ Len(stdout) = 3 + n + Len(v4) + Len(v6)
            /\ stdout[1] = WgkeyLine(ini_parser.PrivateKey[1])
            /\ stdout[2] = WgpeerLine(ini_parser.PublicKey[1])
            /\ HasPrefix(stdout[3], <<"\t", "w", "g", "e", "n", "d", "p", "o", "i", "n", "t", " ">>)
            /\ \A i \in 1..n :
                   HasPrefix(stdout[3 + i], <<"\t", "w", "g", "a", "i", "p", " ">> \o DocAllowedIPs[i])
            /\ \A i \in 1..Len(v4) : stdout[3 + n + i] = <<"i", "n", "e", "t", " ">> \o v4[i]
            /\ \A i \in 1..Len(v6) :
                   stdout[3 + n + Len(v4) + i] = <<"i", "n", "e", "t", "6", " ">> \o v6[i]

\* a successful run with several allowed IPs and addresses of both families
MixedFamiliesPrinted ==
    /\ Succeeded
    /\ Len(wg_allowed_ips) >= 2
    /\ Len(ipv4_addresses) >= 1
    /\ Len(ipv6_addresses) >= 1

\* the wgaip lines with the last line decided by its position
WgaipLinesByPosition(aips) ==
    [i \in 1..Len(aips) |->
        IF i = Len(aips)
        THEN <<"\t", "w", "g", "a", "i", "p", " ">> \o aips[i]
        ELSE <<"\t", "w", "g", "a", "i", "p", " ">> \o aips[i] \o <<" ", "\\">>]

\* C5: of the wgaip lines of a successful run the last has no trailing
\* backslash and every one before it has, repeated literals included.
OnlyLastWgaipUncontinued ==
    Succeeded =>
        LET n == Len(wg_allowed_ips)
        IN  /\ SubSeq(stdout, 4, 3 + n) = WgaipLinesByPosition(wg_allowed_ips)
            /\ \A i \in 1..n : Continued(stdout[3 + i]) <=> i < n

\* C6: with an empty AllowedIPs value a successful run prints no wgaip line
\* and its wgendpoint line still ends with a backslash.
NoWgaipForEmptyAllowedIPs ==
    (Succeeded /\ ini_parser.AllowedIPs = << <<>> >>) =>
        /\ \A i \in 1..Len(stdout) : ~IsWgaip(stdout[i])
        /\ Continued(stdout[3])

\* C7: classification never fails: unparsable literals are left out of the
\* three lists and the other literals are still classified.
ClassificationNeverFails ==
    pc = "classified" =>
        /\ stderr = "none"
        /\ ip_addresses = SelectSeq(potential_addresses, Recognized)
        /\ ipv4_addresses = SelectSeq(potential_addresses, IsV4)
        /\ ipv6_addresses = SelectSeq(potential_addresses, IsV6)

HasPrefixlen(a) == "/" \in Range(a)

RECURSIVE IsSubsequence(_, _)
IsSubsequence(s, t) ==
    IF Len(s) = 0 THEN TRUE
    ELSE IF Len(t) = 0 THEN FALSE
    ELSE IF s[1] = t[1] THEN IsSubsequence(Tail(s), Tail(t))
    ELSE IsSubsequence(s, Tail(t))

\* C9: after one call on a fresh finder, all holds the recognized literals in
\* input order, v4 and v6 are its IPv4 and its IPv6 members in the same order,
\* and every member of all is in exactly one of the two.
ClassificationPartition ==
    pc = "classified" =>
        /\ stderr = "none" =>
               ip_addresses = SelectSeq(potential_addresses, Recognized)
        /\ IsSubsequence(ip_addresses, potential_addresses)
        /\ ipv4_addresses = SelectSeq(ip_addresses, IsV4)
        /\ ipv6_addresses = SelectSeq(ip_addresses, IsV6)
        /\ \A i \in 1..Len(ip_addresses) :
               IsV4(ip_addresses[i]) # IsV6(ip_addresses[i])
        /\ Len(ip_addresses) = Len(ipv4_addresses) + Len(ipv6_addresses)

\* a call that returned with addresses of both families
BothFamiliesClassified ==
    /\ pc = "classified"
    /\ stderr = "none"
    /\ Len(ip_addresses) = MaxList
    /\ Len(ipv4_addresses) >= 1
    /\ Len(ipv6_addresses) >= 1

=============================================================================
